---------------------------- MODULE Spec2Model ----------------------------
(***************************************************************************)
(* Model of WitgenInference (executor/src/witgen/jit/witgen_inference.rs): *)
(* the engine that turns polynomial identities and lookups, processed on   *)
(* explicit rows, into an ordered list of effects ("code").                *)
(*                                                                         *)
(* The engine's own code (process_identity, process_lookup,                *)
(* ingest_effects, add_range_constraint, evaluate, range_constraint) is    *)
(* translated from the source.  Its collaborators RangeConstraint,         *)
(* SymbolicExpression and AffineSymbolicExpression live in other files;    *)
(* they are modelled from their description (a range constraint is a       *)
(* subset of the field, an affine expression is offset + sum of            *)
(* coefficient * unknown) and from what the tests of the source print.     *)
(***************************************************************************)
EXTENDS Integers, Sequences, FiniteSets, TLC

(***************************************************************************)
(* Bounds.                                                                 *)
(***************************************************************************)
\* Rows the driver may ask about are 0..MaxRow (cells reach row MaxRow+1).
MaxRow == 1
\* The driver loop gives up after MaxRounds passes (10000 in solve_on_rows).
MaxRounds == 3
\* The expected_complete argument of the driver is None or Some(0..MaxExpected).
MaxExpected == 2

(***************************************************************************)
(* Option values: None is the empty set, Some(x) the singleton.            *)
(***************************************************************************)
None == {}
Some(x) == {x}
IsSome(o) == o # {}
Get(o) == CHOOSE x \in o : TRUE

(***************************************************************************)
(* The field.  The tests run over the Goldilocks field; the model uses a   *)
(* small prime field so that every operation stays computable.             *)
(***************************************************************************)
P == 17
Field == 0..(P - 1)
FAdd(a, b) == (a + b) % P
FNeg(a) == (P - a) % P
FMul(a, b) == (a * b) % P
FInv(a) == CHOOSE x \in Field : (a * x) % P = 1
FDiv(a, b) == FMul(a, FInv(b))
RECURSIVE FPow(_, _)
FPow(a, n) == IF n = 0 THEN 1 ELSE FMul(a, FPow(a, n - 1))

\* Bitwise operations on the integer representation of a field element.
RECURSIVE BitAnd(_, _)
BitAnd(a, b) ==
    IF a = 0 \/ b = 0 THEN 0
    ELSE (IF a % 2 = 1 /\ b % 2 = 1 THEN 1 ELSE 0) + 2 * BitAnd(a \div 2, b \div 2)
RECURSIVE BitOr(_, _)
BitOr(a, b) ==
    IF a = 0 THEN b
    ELSE IF b = 0 THEN a
    ELSE (IF a % 2 = 1 \/ b % 2 = 1 THEN 1 ELSE 0) + 2 * BitOr(a \div 2, b \div 2)

(***************************************************************************)
(* RangeConstraint: the set of field values a cell may still take.         *)
(***************************************************************************)
RcFromValue(v) == {v}
RcFromMask(m) == {v \in Field : BitAnd(v, m) = v}
RcConjunction(a, b) == a \cap b
RcTryToSingleValue(rc) == IF Cardinality(rc) = 1 THEN Some(Get(rc)) ELSE None
RcMultiple(rc, k) == {FMul(v, k) : v \in rc}
RcCombineSum(a, b) == {FAdd(x, y) : x \in a, y \in b}
RcAllowsValue(rc, v) == v \in rc
RcRangeWidth(rc) == Cardinality(rc)
RECURSIVE RcMask(_)
RcMask(rc) ==
    IF rc = {} THEN 0
    ELSE LET v == CHOOSE x \in rc : TRUE IN BitOr(v, RcMask(rc \ {v}))

(***************************************************************************)
(* Cells.  Witness columns in declaration order (the order of their ids).  *)
(***************************************************************************)
WitnessColumns == <<"X", "Y", "Z", "W">>
ColumnNames == {WitnessColumns[i] : i \in 1..Len(WitnessColumns)}
ColumnId(name) == CHOOSE i \in 1..Len(WitnessColumns) : WitnessColumns[i] = name
Cell(col, row) == [col |-> col, row |-> row]
Cells == {Cell(c, r) : c \in ColumnNames, r \in 0..(MaxRow + 1)}
\* Ord of Cell: by column id, then by row offset.
CellLess(a, b) ==
    \/ ColumnId(a.col) < ColumnId(b.col)
    \/ a.col = b.col /\ a.row < b.row
MinCell(S) == CHOOSE c \in S : \A d \in S \ {c} : CellLess(c, d)
RECURSIVE SortedCells(_)
SortedCells(S) ==
    IF S = {} THEN <<>> ELSE LET c == MinCell(S) IN <<c>> \o SortedCells(S \ {c})

(***************************************************************************)
(* SymbolicExpression: a value known at run time, a number or a term over  *)
(* known cells; every node carries the range constraint it was built with. *)
(***************************************************************************)
Concrete(v) == [t |-> "num", v |-> v]
Symbol(c, rc) == [t |-> "sym", c |-> c, rc |-> rc]
BinaryOperation(l, op, r, rc) == [t |-> "bin", op |-> op, l |-> l, r |-> r, rc |-> rc]
UnaryNeg(e, rc) == [t |-> "neg", e |-> e, rc |-> rc]
BitOperation(e, op, mask, rc) == [t |-> "bit", op |-> op, e |-> e, mask |-> mask, rc |-> rc]

SymRangeConstraint(e) == IF e.t = "num" THEN Some(RcFromValue(e.v)) ELSE e.rc
SymTryToNumber(e) == IF e.t = "num" THEN Some(e.v) ELSE None
SymIsKnownZero(e) == e.t = "num" /\ e.v = 0
SymIsKnownOne(e) == e.t = "num" /\ e.v = 1
SymIsKnownMinusOne(e) == e.t = "num" /\ e.v = P - 1
SymIsKnownNonzero(e) ==
    LET rc == SymRangeConstraint(e) IN IsSome(rc) /\ ~RcAllowsValue(Get(rc), 0)

SymNeg(e) ==
    IF e.t = "num" THEN Concrete(FNeg(e.v))
    ELSE IF e.t = "neg" THEN e.e
    ELSE UnaryNeg(e, IF IsSome(e.rc) THEN Some(RcMultiple(Get(e.rc), P - 1)) ELSE None)
SymAdd(a, b) ==
    IF SymIsKnownZero(a) THEN b
    ELSE IF SymIsKnownZero(b) THEN a
    ELSE IF a.t = "num" /\ b.t = "num" THEN Concrete(FAdd(a.v, b.v))
    ELSE LET ra == SymRangeConstraint(a)
             rb == SymRangeConstraint(b)
         IN BinaryOperation(a, "+", b,
                IF IsSome(ra) /\ IsSome(rb)
                THEN Some(RcCombineSum(Get(ra), Get(rb))) ELSE None)
SymMul(a, b) ==
    IF a.t = "num" /\ b.t = "num" THEN Concrete(FMul(a.v, b.v))
    ELSE IF SymIsKnownZero(a) \/ SymIsKnownZero(b) THEN Concrete(0)
    ELSE IF SymIsKnownOne(a) THEN b
    ELSE IF SymIsKnownOne(b) THEN a
    ELSE IF SymIsKnownMinusOne(a) THEN SymNeg(b)
    ELSE IF SymIsKnownMinusOne(b) THEN SymNeg(a)
    ELSE BinaryOperation(a, "*", b, None)
\* Field division; the divisor is known to be non-zero where this is used.
SymFieldDiv(a, b) ==
    IF a.t = "num" /\ b.t = "num" THEN Concrete(FDiv(a.v, b.v))
    ELSE IF SymIsKnownZero(a) THEN Concrete(0)
    ELSE IF SymIsKnownOne(b) THEN a
    ELSE IF SymIsKnownMinusOne(b) THEN SymNeg(a)
    ELSE BinaryOperation(a, "/", b, None)
SymIntegerDiv(a, b) ==
    IF SymIsKnownOne(b) THEN a
    ELSE IF a.t = "num" /\ b.t = "num" THEN Concrete(a.v \div b.v)
    ELSE BinaryOperation(a, "//", b, None)
SymBitAnd(a, mask) ==
    IF a.t = "num" THEN Concrete(BitAnd(a.v, mask))
    ELSE IF mask = 0 THEN Concrete(0)
    ELSE BitOperation(a, "&", mask, Some(RcFromMask(mask)))
SymBitOr(a, mask) ==
    IF a.t = "num" THEN Concrete(BitOr(a.v, mask) % P)
    ELSE BitOperation(a, "|", mask, None)

\* The cells a symbolic expression refers to.
RECURSIVE SymCells(_)
SymCells(e) ==
    CASE e.t = "num" -> {}
      [] e.t = "sym" -> {e.c}
      [] e.t = "bin" -> SymCells(e.l) \cup SymCells(e.r)
      [] e.t = "neg" -> SymCells(e.e)
      [] e.t = "bit" -> SymCells(e.e)

(***************************************************************************)
(* Effect and ProcessResult.                                               *)
(***************************************************************************)
Assignment(cell, value) == [t |-> "Assignment", cell |-> cell, value |-> value]
RangeConstraintEffect(cell, rc) == [t |-> "RangeConstraint", cell |-> cell, rc |-> rc]
Assertion(lhs, rhs, eq) == [t |-> "Assertion", lhs |-> lhs, rhs |-> rhs, expected_equal |-> eq]
MachineCall(id, args) == [t |-> "MachineCall", id |-> id, args |-> args]
Known(e) == [known |-> TRUE, e |-> e]
Unknown(e) == [known |-> FALSE, e |-> e]

\* error = TRUE stands for the Err of solve (ConstraintUnsatisfiable).
ProcessResultEmpty == [effects |-> <<>>, complete |-> FALSE, error |-> FALSE]
ProcessResultComplete(effects) == [effects |-> effects, complete |-> TRUE, error |-> FALSE]
ProcessResultError == [effects |-> <<>>, complete |-> FALSE, error |-> TRUE]

(***************************************************************************)
(* AffineSymbolicExpression: offset + sum of coeffs[c] * c over unknown    *)
(* cells c, with the range constraint of each unknown (an Option).         *)
(***************************************************************************)
AffFromKnown(s) ==
    [coeffs |-> [c \in {} |-> s], offset |-> s, rcs |-> [c \in {} |-> None]]
AffFromNumber(n) == AffFromKnown(Concrete(n))
AffFromKnownSymbol(cell, rc) == AffFromKnown(Symbol(cell, rc))
AffFromUnknownVariable(cell, rc) ==
    [coeffs |-> [c \in {cell} |-> Concrete(1)],
     offset |-> Concrete(0),
     rcs |-> [c \in {cell} |-> rc]]

AffTryToKnown(a) == IF DOMAIN a.coeffs = {} THEN Some(a.offset) ELSE None
AffSingleUnknownVariable(a) ==
    IF Cardinality(DOMAIN a.coeffs) = 1 THEN Some(Get(DOMAIN a.coeffs)) ELSE None

AffAdd(a, b) ==
    LET da == DOMAIN a.coeffs
        db == DOMAIN b.coeffs
        sum(c) == IF c \in da /\ c \in db THEN SymAdd(a.coeffs[c], b.coeffs[c])
                  ELSE IF c \in da THEN a.coeffs[c] ELSE b.coeffs[c]
        keep == {c \in da \cup db : ~SymIsKnownZero(sum(c))}
    IN [coeffs |-> [c \in keep |-> sum(c)],
        offset |-> SymAdd(a.offset, b.offset),
        rcs |-> [c \in keep |-> IF c \in da THEN a.rcs[c] ELSE b.rcs[c]]]
AffNeg(a) ==
    [coeffs |-> [c \in DOMAIN a.coeffs |-> SymNeg(a.coeffs[c])],
     offset |-> SymNeg(a.offset),
     rcs |-> a.rcs]
AffSub(a, b) == AffAdd(a, AffNeg(b))
\* Multiplication by a known value.
AffMulKnown(a, k) ==
    IF SymIsKnownZero(k) THEN AffFromNumber(0)
    ELSE [coeffs |-> [c \in DOMAIN a.coeffs |-> SymMul(a.coeffs[c], k)],
          offset |-> SymMul(a.offset, k),
          rcs |-> a.rcs]
AffTryMul(a, b) ==
    IF IsSome(AffTryToKnown(b)) THEN Some(AffMulKnown(a, b.offset))
    ELSE IF IsSome(AffTryToKnown(a)) THEN Some(AffMulKnown(b, a.offset))
    ELSE None

\* Bits covered by the unknown c scaled by its (numeric) coefficient.
AffMaskOf(a, c) == RcMask(RcMultiple(Get(a.rcs[c]), a.coeffs[c].v))
RECURSIVE AffCoveredBits(_, _)
AffCoveredBits(a, S) ==
    IF S = {} THEN 0
    ELSE LET c == CHOOSE x \in S : TRUE
         IN BitOr(AffMaskOf(a, c), AffCoveredBits(a, S \ {c}))

\* offset + sum coeff*var = 0 where the summands occupy disjoint bits:
\* every unknown is a masked part of -offset.
AffSolveBitDecomposition(a) ==
    LET vars == DOMAIN a.coeffs
        order == SortedCells(vars)
        covered == AffCoveredBits(a, vars)
        minus == SymNeg(a.offset)
    IN IF \E c \in vars : a.coeffs[c].t # "num" \/ ~IsSome(a.rcs[c])
       THEN ProcessResultEmpty
       ELSE IF \E c, d \in vars : c # d /\ BitAnd(AffMaskOf(a, c), AffMaskOf(a, d)) # 0
       THEN ProcessResultEmpty
       ELSE IF covered >= P
       THEN ProcessResultEmpty
       ELSE ProcessResultComplete(
                [i \in 1..Len(order) |->
                    Assignment(order[i],
                        SymIntegerDiv(SymBitAnd(minus, AffMaskOf(a, order[i])),
                                      a.coeffs[order[i]]))]
                \o <<Assertion(minus, SymBitOr(minus, covered), TRUE)>>)

RECURSIVE AffSumOfRanges(_, _, _)
AffSumOfRanges(a, S, acc) ==
    IF S = {} THEN acc
    ELSE LET c == CHOOSE x \in S : TRUE
         IN AffSumOfRanges(a, S \ {c},
                RcCombineSum(acc, RcMultiple(Get(a.rcs[c]), a.coeffs[c].v)))

\* X = a*Y + b*Z + ... : the least constrained X with coefficient +-1 inherits
\* the range of the sum of the others.  An Option of one RangeConstraint effect.
AffTransferConstraints(a) ==
    LET vars == DOMAIN a.coeffs
        cands == {c \in vars : SymIsKnownOne(a.coeffs[c]) \/ SymIsKnownMinusOne(a.coeffs[c])}
        width(c) == IF IsSome(a.rcs[c]) THEN RcRangeWidth(Get(a.rcs[c])) ELSE P
        best == {c \in cands : \A d \in cands : width(d) <= width(c)}
        solve_for == CHOOSE c \in best : \A d \in best \ {c} : CellLess(d, c)
        others == vars \ {solve_for}
        orc == SymRangeConstraint(a.offset)
        total == AffSumOfRanges(a, others, Get(orc))
    IN IF cands = {} THEN None
       ELSE IF \E c \in others : a.coeffs[c].t # "num" \/ ~IsSome(a.rcs[c]) THEN None
       ELSE IF ~IsSome(orc) THEN None
       ELSE Some(RangeConstraintEffect(solve_for,
                IF SymIsKnownOne(a.coeffs[solve_for])
                THEN RcMultiple(total, P - 1) ELSE total))

OptionToSeq(o) == IF IsSome(o) THEN <<Get(o)>> ELSE <<>>

\* Solve "a = 0".
AffSolve(a) ==
    LET n == Cardinality(DOMAIN a.coeffs) IN
    IF n = 0 THEN
        IF SymIsKnownNonzero(a.offset) THEN ProcessResultError
        ELSE ProcessResultComplete(<<>>)
    ELSE IF n = 1 THEN
        LET var == Get(DOMAIN a.coeffs)
            coeff == a.coeffs[var]
        IN IF SymIsKnownNonzero(coeff) \/ SymIsKnownNonzero(a.offset)
           THEN ProcessResultComplete(
                    <<Assignment(var, SymFieldDiv(a.offset, SymNeg(coeff)))>>)
           ELSE ProcessResultEmpty
    ELSE
        LET r1 == AffSolveBitDecomposition(a)
            negated == AffNeg(a)
            r2 == AffSolveBitDecomposition(negated)
        IN IF r1.complete THEN r1
           ELSE IF r2.complete THEN r2
           ELSE [effects |-> OptionToSeq(AffTransferConstraints(a))
                             \o OptionToSeq(AffTransferConstraints(negated)),
                 complete |-> FALSE, error |-> FALSE]

(***************************************************************************)
(* The input language: algebraic expressions and identities.               *)
(***************************************************************************)
WRef(col) == [t |-> "Reference", fixed |-> FALSE, col |-> col, next |-> FALSE]
WNext(col) == [t |-> "Reference", fixed |-> FALSE, col |-> col, next |-> TRUE]
FRef(col) == [t |-> "Reference", fixed |-> TRUE, col |-> col, next |-> FALSE]
Num(n) == [t |-> "Number", v |-> n]
PublicReference == [t |-> "PublicReference"]
Challenge == [t |-> "Challenge"]
Bin(l, op, r) == [t |-> "BinaryOperation", op |-> op, left |-> l, right |-> r]
Minus(e) == [t |-> "UnaryOperation", op |-> "Minus", expr |-> e]

PolynomialIdentity(id, e) == [kind |-> "Polynomial", id |-> id, expression |-> e]
SelectedExpressions(sel, es) == [selector |-> sel, expressions |-> es]
LookupFamily == {"Lookup", "Permutation", "PhantomLookup", "PhantomPermutation"}
LookupIdentity(kind, id, left, right) ==
    [kind |-> kind, id |-> id, left |-> left, right |-> right]
PhantomBusInteraction(id) == [kind |-> "PhantomBusInteraction", id |-> id]
Connect(id) == [kind |-> "Connect", id |-> id]

(***************************************************************************)
(* The fixed-value provider.  Like the provider of the tests it reads the  *)
(* column at (row + next) modulo its length; for a column it has no values *)
(* of it answers None, as the default implementation of the trait does.    *)
(***************************************************************************)
FixedColumns ==
    [FIRST |-> <<1, 0, 0, 0>>,
     ONE |-> <<1, 1, 1, 1>>,
     P_A |-> <<0, 1, 2, 3>>,
     P_B |-> <<3, 2, 1, 0>>]
FixedEvaluate(r, row_offset) ==
    IF r.col \in DOMAIN FixedColumns
    THEN LET values == FixedColumns[r.col]
             row == (row_offset + (IF r.next THEN 1 ELSE 0)) % Len(values)
         IN Some(values[row + 1])
    ELSE None

(***************************************************************************)
(* State of the engine and of its driver.                                  *)
(***************************************************************************)
VARIABLES
    identities,                 \* the identities the driver holds (input)
    rows,                       \* the rows the driver asks about (input)
    fixed_data,                 \* global range constraints per column (input)
    initial_known,              \* the known_cells argument of new (ghost)
    known_cells,
    derived_range_constraints,
    code,
    complete,                   \* (identity, row) pairs that returned true
    panicked,                   \* an unwrap or assert failed: the process aborted
    driver                      \* the loop of solve_on_rows, or NoDriver

vars == <<identities, rows, fixed_data, initial_known, known_cells,
          derived_range_constraints, code, complete, panicked, driver>>

\* The knowledge base as one value, so that helper operators can thread it.
KB == [known_cells |-> known_cells,
       derived_range_constraints |-> derived_range_constraints,
       code |-> code,
       panic |-> FALSE]

(***************************************************************************)
(* WitgenInference                                                         *)
(***************************************************************************)
\* Variant of Cell::from_reference that ignores the next flag.
CellFromReference_same_row(r, offset) == Cell(r.col, offset)
CellFromReference(r, offset) == Cell(r.col, offset + (IF r.next THEN 1 ELSE 0))

\* Global range constraint of the column, conjoined with the derived one.
range_constraint(kb, cell) ==
    LET g == fixed_data.global_range_constraints[cell.col]
        d == kb.derived_range_constraints[cell]
    IN IF IsSome(g) /\ IsSome(d) THEN Some(RcConjunction(Get(g), Get(d)))
       ELSE IF IsSome(g) THEN g
       ELSE d

\* Variant of the reference case of evaluate that does not hand the range
\* constraint to an unknown variable.
evaluate_reference_no_constraint(kb, r, offset) ==
    IF r.fixed
    THEN LET v == FixedEvaluate(r, offset)
         IN IF IsSome(v) THEN Some(AffFromNumber(Get(v))) ELSE None
    ELSE LET cell == CellFromReference(r, offset)
             rc == range_constraint(kb, cell)
             val == IF IsSome(rc) THEN RcTryToSingleValue(Get(rc)) ELSE None
         IN IF IsSome(val) THEN Some(AffFromNumber(Get(val)))
            ELSE IF cell \in kb.known_cells THEN Some(AffFromKnownSymbol(cell, rc))
            ELSE Some(AffFromUnknownVariable(cell, None))

\* Variant of the reference case of evaluate that looks at known_cells before
\* it looks at the range constraint.
evaluate_reference_known_first(kb, r, offset) ==
    IF r.fixed
    THEN LET v == FixedEvaluate(r, offset)
         IN IF IsSome(v) THEN Some(AffFromNumber(Get(v))) ELSE None
    ELSE LET cell == CellFromReference(r, offset)
             rc == range_constraint(kb, cell)
             val == IF IsSome(rc) THEN RcTryToSingleValue(Get(rc)) ELSE None
         IN IF cell \in kb.known_cells THEN Some(AffFromKnownSymbol(cell, rc))
            ELSE IF IsSome(val) THEN Some(AffFromNumber(Get(val)))
            ELSE Some(AffFromUnknownVariable(cell, rc))

\* Variant of the reference case of evaluate with the known_cells test inverted.
evaluate_reference_inverted(kb, r, offset) ==
    IF r.fixed
    THEN LET v == FixedEvaluate(r, offset)
         IN IF IsSome(v) THEN Some(AffFromNumber(Get(v))) ELSE None
    ELSE LET cell == CellFromReference(r, offset)
             rc == range_constraint(kb, cell)
             val == IF IsSome(rc) THEN RcTryToSingleValue(Get(rc)) ELSE None
         IN IF IsSome(val) THEN Some(AffFromNumber(Get(val)))
            ELSE IF cell \notin kb.known_cells THEN Some(AffFromKnownSymbol(cell, rc))
            ELSE Some(AffFromUnknownVariable(cell, rc))

\* Variant of the Reference case of evaluate that does not look at
\* known_cells.
evaluate_reference_all_unknown(kb, r, offset) ==
    IF r.fixed
    THEN LET v == FixedEvaluate(r, offset)
         IN IF IsSome(v) THEN Some(AffFromNumber(Get(v))) ELSE None
    ELSE LET cell == CellFromReference(r, offset)
             rc == range_constraint(kb, cell)
             val == IF IsSome(rc) THEN RcTryToSingleValue(Get(rc)) ELSE None
         IN IF IsSome(val) THEN Some(AffFromNumber(Get(val)))
            ELSE Some(AffFromUnknownVariable(cell, rc))

evaluate_reference(kb, r, offset) ==
    IF r.fixed
    THEN LET v == FixedEvaluate(r, offset)
         IN IF IsSome(v) THEN Some(AffFromNumber(Get(v))) ELSE None
    ELSE LET cell == CellFromReference(r, offset)
             rc == range_constraint(kb, cell)
             val == IF IsSome(rc) THEN RcTryToSingleValue(Get(rc)) ELSE None
         IN IF IsSome(val) THEN Some(AffFromNumber(Get(val)))
            ELSE IF cell \in kb.known_cells THEN Some(AffFromKnownSymbol(cell, rc))
            ELSE Some(AffFromUnknownVariable(cell, rc))

evaluate_pow(left, right) ==
    LET l == AffTryToKnown(left)
        r == AffTryToKnown(right)
    IN IF IsSome(l) /\ IsSome(r)
          /\ IsSome(SymTryToNumber(Get(l))) /\ IsSome(SymTryToNumber(Get(r)))
       THEN Some(AffFromNumber(FPow(Get(l).v, Get(r).v)))
       ELSE None

RECURSIVE evaluate(_, _, _)
evaluate_binary_operation(kb, op, offset) ==
    LET left == evaluate(kb, op.left, offset)
        right == evaluate(kb, op.right, offset)
    IN IF ~IsSome(left) THEN None
       ELSE IF ~IsSome(right) THEN None
       ELSE CASE op.op = "Add" -> Some(AffAdd(Get(left), Get(right)))
              [] op.op = "Sub" -> Some(AffSub(Get(left), Get(right)))
              [] op.op = "Mul" -> AffTryMul(Get(left), Get(right))
              [] op.op = "Pow" -> evaluate_pow(Get(left), Get(right))
evaluate_unary_operation(kb, op, offset) ==
    LET expr == evaluate(kb, op.expr, offset)
    IN IF ~IsSome(expr) THEN None ELSE Some(AffNeg(Get(expr)))
\* Variant of evaluate that reads a public input as the number 0.
evaluate_public_as_zero(kb, expr, offset) ==
    CASE expr.t = "Reference" -> evaluate_reference(kb, expr, offset)
      [] expr.t = "PublicReference" -> Some(AffFromNumber(0))
      [] expr.t = "Challenge" -> None
      [] expr.t = "Number" -> Some(AffFromNumber(expr.v))
      [] expr.t = "BinaryOperation" -> evaluate_binary_operation(kb, expr, offset)
      [] expr.t = "UnaryOperation" -> evaluate_unary_operation(kb, expr, offset)
evaluate(kb, expr, offset) ==
    CASE expr.t = "Reference" -> evaluate_reference(kb, expr, offset)
      [] expr.t = "PublicReference" -> None
      [] expr.t = "Challenge" -> None
      [] expr.t = "Number" -> Some(AffFromNumber(expr.v))
      [] expr.t = "BinaryOperation" -> evaluate_binary_operation(kb, expr, offset)
      [] expr.t = "UnaryOperation" -> evaluate_unary_operation(kb, expr, offset)

\* Variant of process_polynomial_identity that reports a failed evaluation
\* as complete.
process_polynomial_identity_complete(kb, expression, offset) ==
    LET r == evaluate(kb, expression, offset)
    IN IF IsSome(r) THEN AffSolve(Get(r)) ELSE ProcessResultComplete(<<>>)

\* solve().unwrap(): an Err of solve aborts the process (result.error).
process_polynomial_identity(kb, expression, offset) ==
    LET r == evaluate(kb, expression, offset)
    IN IF IsSome(r) THEN AffSolve(Get(r)) ELSE ProcessResultEmpty

RhsIsFixed(right) ==
    \A i \in 1..Len(right.expressions) :
        LET e == right.expressions[i]
        IN \/ e.t = "Reference" /\ e.fixed
           \/ e.t = "Number"
SelectorIsKnownOne(kb, left, offset) ==
    LET s == evaluate(kb, left.selector, offset)
    IN /\ IsSome(s)
       /\ IsSome(AffTryToKnown(Get(s)))
       /\ SymIsKnownOne(Get(s).offset)

\* Variant of process_lookup that accepts any expression as the one that is
\* not known.
process_lookup_any_unknown(kb, lookup_id, left, right, offset) ==
    LET n == Len(left.expressions)
        lhs == [i \in 1..n |-> evaluate(kb, left.expressions[i], offset)]
        unknown == {i \in 1..n : ~IsSome(AffTryToKnown(Get(lhs[i])))}
    IN IF ~RhsIsFixed(right) THEN ProcessResultEmpty
       ELSE IF ~SelectorIsKnownOne(kb, left, offset) THEN ProcessResultEmpty
       ELSE IF \E i \in 1..n : ~IsSome(lhs[i]) THEN ProcessResultEmpty
       ELSE IF Cardinality(unknown) = 1
       THEN ProcessResultComplete(
                <<MachineCall(lookup_id,
                    [i \in 1..n |->
                        IF IsSome(AffTryToKnown(Get(lhs[i])))
                        THEN Known(Get(lhs[i]).offset)
                        ELSE Unknown(Get(lhs[i]))])>>)
       ELSE ProcessResultEmpty

\* Variant of process_lookup that does not look at the selector.
process_lookup_any_selector(kb, lookup_id, left, right, offset) ==
    LET n == Len(left.expressions)
        lhs == [i \in 1..n |-> evaluate(kb, left.expressions[i], offset)]
        unknown == {i \in 1..n : ~IsSome(AffTryToKnown(Get(lhs[i])))}
    IN IF ~RhsIsFixed(right) THEN ProcessResultEmpty
       ELSE IF \E i \in 1..n : ~IsSome(lhs[i]) THEN ProcessResultEmpty
       ELSE IF Cardinality(unknown) = 1
               /\ IsSome(AffSingleUnknownVariable(Get(lhs[Get(unknown)])))
       THEN ProcessResultComplete(
                <<MachineCall(lookup_id,
                    [i \in 1..n |->
                        IF IsSome(AffTryToKnown(Get(lhs[i])))
                        THEN Known(Get(lhs[i]).offset)
                        ELSE Unknown(Get(lhs[i]))])>>)
       ELSE ProcessResultEmpty

process_lookup(kb, lookup_id, left, right, offset) ==
    LET n == Len(left.expressions)
        lhs == [i \in 1..n |-> evaluate(kb, left.expressions[i], offset)]
        unknown == {i \in 1..n : ~IsSome(AffTryToKnown(Get(lhs[i])))}
    IN IF ~RhsIsFixed(right) THEN ProcessResultEmpty
       ELSE IF ~SelectorIsKnownOne(kb, left, offset) THEN ProcessResultEmpty
       ELSE IF \E i \in 1..n : ~IsSome(lhs[i]) THEN ProcessResultEmpty
       ELSE IF Cardinality(unknown) = 1
               /\ IsSome(AffSingleUnknownVariable(Get(lhs[Get(unknown)])))
       THEN ProcessResultComplete(
                <<MachineCall(lookup_id,
                    [i \in 1..n |->
                        IF IsSome(AffTryToKnown(Get(lhs[i])))
                        THEN Known(Get(lhs[i]).offset)
                        ELSE Unknown(Get(lhs[i]))])>>)
       ELSE ProcessResultEmpty

\* Variants of add_range_constraint with a slip each: promoting a cell that
\* is already known, promoting without emitting the Assignment, and storing
\* the new constraint instead of the conjunction.
add_range_constraint_promote_known(kb, cell, rc) ==
    LET existing == range_constraint(kb, cell)
        new_rc == IF IsSome(existing) THEN RcConjunction(Get(existing), rc) ELSE rc
        v == RcTryToSingleValue(new_rc)
        promote == IsSome(v)
    IN [kb EXCEPT
         !.known_cells = IF promote THEN @ \cup {cell} ELSE @,
         !.code = IF promote THEN Append(@, Assignment(cell, Concrete(Get(v)))) ELSE @,
         !.derived_range_constraints = [@ EXCEPT ![cell] = Some(new_rc)]]
add_range_constraint_no_code(kb, cell, rc) ==
    LET existing == range_constraint(kb, cell)
        new_rc == IF IsSome(existing) THEN RcConjunction(Get(existing), rc) ELSE rc
        v == RcTryToSingleValue(new_rc)
        promote == cell \notin kb.known_cells /\ IsSome(v)
    IN [kb EXCEPT
         !.known_cells = IF promote THEN @ \cup {cell} ELSE @,
         !.derived_range_constraints = [@ EXCEPT ![cell] = Some(new_rc)]]
add_range_constraint_overwrite(kb, cell, rc) ==
    LET v == RcTryToSingleValue(rc)
        promote == cell \notin kb.known_cells /\ IsSome(v)
    IN [kb EXCEPT
         !.known_cells = IF promote THEN @ \cup {cell} ELSE @,
         !.code = IF promote THEN Append(@, Assignment(cell, Concrete(Get(v)))) ELSE @,
         !.derived_range_constraints = [@ EXCEPT ![cell] = Some(rc)]]

add_range_constraint(kb, cell, rc) ==
    LET existing == range_constraint(kb, cell)
        new_rc == IF IsSome(existing) THEN RcConjunction(Get(existing), rc) ELSE rc
        v == RcTryToSingleValue(new_rc)
        promote == cell \notin kb.known_cells /\ IsSome(v)
    IN [kb EXCEPT
         !.known_cells = IF promote THEN @ \cup {cell} ELSE @,
         !.code = IF promote THEN Append(@, Assignment(cell, Concrete(Get(v)))) ELSE @,
         !.derived_range_constraints = [@ EXCEPT ![cell] = Some(new_rc)]]

push_code(kb, e) == [kb EXCEPT !.code = Append(@, e)]
insert_known(kb, cell) == [kb EXCEPT !.known_cells = @ \cup {cell}]

\* Variant of the Assignment case of ingest_effects that does not merge the
\* range constraint of the assigned value.
ingest_assignment_no_constraint(kb, e) == push_code(insert_known(kb, e.cell), e)

\* Variant of the Assignment case of ingest_effects that does not mark the
\* assigned cell as known.
ingest_assignment_not_known(kb, e) ==
    LET rc == SymRangeConstraint(e.value)
        kb2 == IF IsSome(rc) THEN add_range_constraint(kb, e.cell, Get(rc)) ELSE kb
    IN push_code(kb2, e)

ingest_assignment(kb, e) ==
    LET kb1 == insert_known(kb, e.cell)
        rc == SymRangeConstraint(e.value)
        kb2 == IF IsSome(rc) THEN add_range_constraint(kb1, e.cell, Get(rc)) ELSE kb1
    IN push_code(kb2, e)

\* Variants of the MachineCall case of ingest_effects: known_cells replaced
\* by the supplied cells, and the supplied cells not marked as known.
ingest_machine_call_replace(kb, e) ==
    LET unk == {i \in 1..Len(e.args) : ~e.args[i].known}
        bad == \E i \in unk : ~IsSome(AffSingleUnknownVariable(e.args[i].e))
        cells == {Get(AffSingleUnknownVariable(e.args[i].e)) : i \in unk}
    IN IF bad THEN [kb EXCEPT !.panic = TRUE]
       ELSE push_code([kb EXCEPT !.known_cells = cells], e)
ingest_machine_call_not_known(kb, e) ==
    LET unk == {i \in 1..Len(e.args) : ~e.args[i].known}
        bad == \E i \in unk : ~IsSome(AffSingleUnknownVariable(e.args[i].e))
    IN IF bad THEN [kb EXCEPT !.panic = TRUE]
       ELSE push_code(kb, e)

\* Variant of the MachineCall case of ingest_effects that marks the supplied
\* cells as known without appending the call to code.
ingest_machine_call_no_code(kb, e) ==
    LET unk == {i \in 1..Len(e.args) : ~e.args[i].known}
        bad == \E i \in unk : ~IsSome(AffSingleUnknownVariable(e.args[i].e))
        cells == {Get(AffSingleUnknownVariable(e.args[i].e)) : i \in unk}
    IN IF bad THEN [kb EXCEPT !.panic = TRUE]
       ELSE [kb EXCEPT !.known_cells = @ \cup cells]

\* The cells of the Unknown arguments; an argument without a single unknown
\* variable makes the unwrap fail.
ingest_machine_call(kb, e) ==
    LET unk == {i \in 1..Len(e.args) : ~e.args[i].known}
        bad == \E i \in unk : ~IsSome(AffSingleUnknownVariable(e.args[i].e))
        cells == {Get(AffSingleUnknownVariable(e.args[i].e)) : i \in unk}
    IN IF bad THEN [kb EXCEPT !.panic = TRUE]
       ELSE push_code([kb EXCEPT !.known_cells = @ \cup cells], e)

\* Variant of the match of ingest_effects that also appends RangeConstraint
\* effects to code.
ingest_effect_push_all(kb, e) ==
    CASE e.t = "Assignment" -> ingest_assignment(kb, e)
      [] e.t = "RangeConstraint" -> push_code(add_range_constraint(kb, e.cell, e.rc), e)
      [] e.t = "MachineCall" -> ingest_machine_call(kb, e)
      [] e.t = "Assertion" -> push_code(kb, e)

ingest_effect(kb, e) ==
    CASE e.t = "Assignment" -> ingest_assignment(kb, e)
      [] e.t = "RangeConstraint" -> add_range_constraint(kb, e.cell, e.rc)
      [] e.t = "MachineCall" -> ingest_machine_call(kb, e)
      [] e.t = "Assertion" -> push_code(kb, e)

RECURSIVE ingest_effects(_, _)
ingest_effects(kb, effects) ==
    IF effects = <<>> \/ kb.panic THEN kb
    ELSE ingest_effects(ingest_effect(kb, Head(effects)), Tail(effects))

\* Variant of the match of process_identity that reports connect identities
\* as complete.
identity_result_connect_complete(kb, id, row_offset) ==
    CASE id.kind = "Polynomial" ->
            process_polynomial_identity(kb, id.expression, row_offset)
      [] id.kind \in LookupFamily ->
            process_lookup(kb, id.id, id.left, id.right, row_offset)
      [] id.kind = "PhantomBusInteraction" -> ProcessResultEmpty
      [] id.kind = "Connect" -> ProcessResultComplete(<<>>)

\* The ProcessResult process_identity computes before ingesting it.
identity_result(kb, id, row_offset) ==
    CASE id.kind = "Polynomial" ->
            process_polynomial_identity(kb, id.expression, row_offset)
      [] id.kind \in LookupFamily ->
            process_lookup(kb, id.id, id.left, id.right, row_offset)
      [] id.kind = "PhantomBusInteraction" -> ProcessResultEmpty
      [] id.kind = "Connect" -> ProcessResultEmpty

(***************************************************************************)
(* Inputs: the programs (identities, global range constraints and the      *)
(* cells that may be known at construction) the engine is run on.          *)
(***************************************************************************)
Rows == 0..MaxRow
NoGlobalConstraints == [c \in ColumnNames |-> None]

\* X = 1; Y = X + 1; Z * Y = X + 10 (test simple_polynomial_solving), and
\* X = 2, which conflicts with the first identity.  No identity refers to a
\* next row, so the rows are independent and one row shows every case.
SimpleProgram ==
    [identities |->
        <<PolynomialIdentity(0, Bin(WRef("X"), "Sub", Num(1))),
          PolynomialIdentity(1, Bin(WRef("Y"), "Sub", Bin(WRef("X"), "Add", Num(1)))),
          PolynomialIdentity(2, Bin(Bin(WRef("Z"), "Mul", WRef("Y")), "Sub",
                                    Bin(WRef("X"), "Add", Num(10)))),
          PolynomialIdentity(3, Bin(WRef("X"), "Sub", Num(2)))>>,
     global_range_constraints |-> NoGlobalConstraints,
     rows |-> {0},
     may_be_known |-> {Cell("X", 0), Cell("Y", 0), Cell("Z", 0)}]

\* Exactly the identities of test simple_polynomial_solving.
SimpleTestProgram ==
    [identities |-> SubSeq(SimpleProgram.identities, 1, 3),
     global_range_constraints |-> NoGlobalConstraints,
     rows |-> {0},
     may_be_known |-> {Cell("X", 0), Cell("Y", 0)}]

\* X' = Y; Y' = X + Y (test fib).
FibProgram ==
    [identities |->
        <<PolynomialIdentity(0, Bin(WNext("X"), "Sub", WRef("Y"))),
          PolynomialIdentity(1, Bin(WNext("Y"), "Sub", Bin(WRef("X"), "Add", WRef("Y"))))>>,
     global_range_constraints |-> NoGlobalConstraints,
     rows |-> Rows,
     may_be_known |-> {Cell("X", 0), Cell("Y", 0)}]

\* Lookups of the four kinds (rotated by k), a polynomial identity that
\* uses what a lookup supplies, a bus interaction and a connect identity.
LookupKinds == <<"Lookup", "Permutation", "PhantomLookup", "PhantomPermutation">>
KindAt(k, j) == LookupKinds[((k + j) % Len(LookupKinds)) + 1]
FixedTable == SelectedExpressions(Num(1), <<FRef("P_A"), FRef("P_B")>>)
LookupProgram(k) ==
    [identities |->
        <<LookupIdentity(KindAt(k, 0), 0,
              SelectedExpressions(Num(1), <<WRef("X"), WRef("Y")>>), FixedTable),
          LookupIdentity(KindAt(k, 1), 1,
              SelectedExpressions(Num(1), <<WRef("X"), WRef("Y")>>),
              SelectedExpressions(Num(1), <<FRef("P_A"), WRef("Z")>>)),
          LookupIdentity(KindAt(k, 2), 2,
              SelectedExpressions(FRef("FIRST"), <<WRef("Y"), WRef("W")>>),
              SelectedExpressions(Num(1), <<FRef("P_A"), Num(3)>>)),
          LookupIdentity(KindAt(k, 3), 3,
              SelectedExpressions(Num(1),
                  <<WRef("X"), Bin(WRef("Y"), "Add", Bin(Num(2), "Mul", WRef("Z")))>>),
              FixedTable),
          LookupIdentity(KindAt(k, 0), 4,
              SelectedExpressions(Num(1), <<WRef("X"), PublicReference>>), FixedTable),
          PolynomialIdentity(5, Bin(WNext("Z"), "Sub", WRef("Y"))),
          PhantomBusInteraction(6),
          Connect(7),
          LookupIdentity(KindAt(k, 1), 8,
              SelectedExpressions(WRef("W"), <<WRef("X"), WRef("Y")>>), FixedTable)>>,
     global_range_constraints |-> NoGlobalConstraints,
     rows |-> Rows,
     may_be_known |-> {Cell("X", 0), Cell("Y", 0), Cell("X", 1)}]

\* Range constraints: X in 0..3, Y in 1..2, W in 0..1.
\* Z = X + 4 * W is a bit decomposition of Z; W = X + 1 and W = Y pin
\* cells down through their ranges alone; Z = Y + 3 bounds Z a second time.
RangeProgram ==
    [identities |->
        <<PolynomialIdentity(0, Bin(WRef("Z"), "Sub",
                                    Bin(WRef("X"), "Add", Bin(Num(4), "Mul", WRef("W"))))),
          PolynomialIdentity(1, Bin(WRef("W"), "Sub", Bin(WRef("X"), "Add", Num(1)))),
          PolynomialIdentity(2, Bin(WRef("W"), "Sub", WRef("Y"))),
          PolynomialIdentity(3, Bin(WRef("Z"), "Sub", Bin(WRef("Y"), "Add", Num(3))))>>,
     global_range_constraints |->
        [c \in ColumnNames |->
            CASE c = "X" -> Some(RcFromMask(3))
              [] c = "Y" -> Some({1, 2})
              [] c = "W" -> Some(RcFromMask(1))
              [] OTHER -> None],
     rows |-> {0},
     may_be_known |-> {Cell("Z", 0), Cell("Y", 0)}]

\* X = Y where the ranges of X (0..1) and Y (2..3) exclude each other, and
\* X = 2, a constant outside the range of X.
ConflictProgram ==
    [identities |->
        <<PolynomialIdentity(0, Bin(WRef("X"), "Sub", WRef("Y"))),
          PolynomialIdentity(1, Bin(WRef("X"), "Sub", Num(2)))>>,
     global_range_constraints |->
        [c \in ColumnNames |->
            CASE c = "X" -> Some({0, 1})
              [] c = "Y" -> Some({2, 3})
              [] OTHER -> None],
     rows |-> Rows,
     may_be_known |-> {Cell("X", 0), Cell("Y", 0)}]

\* Expressions whose evaluation fails (public input, challenge, a fixed column
\* the provider has no values of, a power of an unknown), a power of numbers,
\* and a reference to W, which its global range constraint fixes to 3.
EvalProgram ==
    [identities |->
        <<PolynomialIdentity(0, Bin(WRef("X"), "Sub", PublicReference)),
          PolynomialIdentity(1, Bin(WRef("X"), "Sub", Challenge)),
          PolynomialIdentity(2, Bin(WRef("X"), "Sub", FRef("UNAVAILABLE"))),
          PolynomialIdentity(3, Bin(WRef("X"), "Sub", Bin(Num(2), "Pow", Num(3)))),
          PolynomialIdentity(4, Bin(WRef("Y"), "Sub", Bin(WRef("X"), "Pow", Num(2)))),
          PolynomialIdentity(5, Minus(Bin(WRef("Z"), "Sub", WRef("Y")))),
          PolynomialIdentity(6, Bin(WRef("Y"), "Sub", WRef("W")))>>,
     global_range_constraints |->
        [c \in ColumnNames |-> IF c = "W" THEN Some(RcFromValue(3)) ELSE None],
     rows |-> {0},
     may_be_known |-> {Cell("X", 0), Cell("Z", 0)}]

\* FIRST * (Y - 1) = 0; FIRST * (X - 1) = 0; X' - Y = 0; Y' - (X + Y) = 0
\* (test fib_with_fixed).
FixedProgram ==
    [identities |->
        <<PolynomialIdentity(0, Bin(FRef("FIRST"), "Mul", Bin(WRef("Y"), "Sub", Num(1)))),
          PolynomialIdentity(1, Bin(FRef("FIRST"), "Mul", Bin(WRef("X"), "Sub", Num(1)))),
          PolynomialIdentity(2, Bin(WNext("X"), "Sub", WRef("Y"))),
          PolynomialIdentity(3, Bin(WNext("Y"), "Sub", Bin(WRef("X"), "Add", WRef("Y"))))>>,
     global_range_constraints |-> NoGlobalConstraints,
     rows |-> Rows,
     may_be_known |-> {}]

Programs ==
    {SimpleProgram, SimpleTestProgram, FibProgram, RangeProgram, ConflictProgram,
     EvalProgram, FixedProgram}
    \cup {LookupProgram(k) : k \in 0..(Len(LookupKinds) - 1)}

\* Without the loop of solve_on_rows the caller is free to ask about any
\* identity and row in any order.
NoDriver == [pc |-> "none"]

(***************************************************************************)
(* WitgenInference::new                                                    *)
(***************************************************************************)
Init ==
    \E prog \in Programs, known \in SUBSET Cells :
        /\ known \subseteq prog.may_be_known
        /\ identities = prog.identities
        /\ rows = prog.rows
        /\ fixed_data = [global_range_constraints |-> prog.global_range_constraints]
        /\ initial_known = known
        /\ known_cells = known
        /\ derived_range_constraints = [c \in Cells |-> None]
        /\ code = <<>>
        /\ complete = {}
        /\ panicked = FALSE
        /\ driver = NoDriver

(***************************************************************************)
(* process_identity, called by the driver with any identity and row.       *)
(***************************************************************************)
process_identity(i, row_offset) ==
    LET result == identity_result(KB, identities[i], row_offset)
        kb == ingest_effects(KB, result.effects)
        pair == <<i, row_offset>>
    IN /\ ~panicked
       /\ IF result.error \/ kb.panic
          THEN /\ panicked' = TRUE
               /\ UNCHANGED <<known_cells, derived_range_constraints, code, complete>>
          ELSE /\ known_cells' = kb.known_cells
               /\ derived_range_constraints' = kb.derived_range_constraints
               /\ code' = kb.code
               /\ complete' = IF result.complete THEN complete \cup {pair} ELSE complete
               /\ UNCHANGED panicked
       /\ UNCHANGED <<identities, rows, fixed_data, initial_known>>

Next ==
    /\ driver = NoDriver
    /\ \E i \in 1..Len(identities), row \in rows :
            process_identity(i, row) /\ UNCHANGED driver

Spec == Init /\ [][Next]_vars

(***************************************************************************)
(* The driver of the tests, solve_on_rows: passes over the rows and the    *)
(* identities in declared order, skipping completed pairs, until the       *)
(* expected number of pairs is complete.                                   *)
(***************************************************************************)
\* The rows argument: any sequence of distinct rows of the program.
RowOrders(S) ==
    {o \in UNION {[1..n -> S] : n \in 0..Cardinality(S)} :
        \A a, b \in DOMAIN o : a # b => o[a] # o[b]}
ExpectedComplete == {None} \cup {Some(n) : n \in 0..MaxExpected}

DriverInit ==
    \E prog \in Programs, known \in SUBSET Cells :
    \E order \in RowOrders(prog.rows), expected_complete \in ExpectedComplete :
        /\ known \subseteq prog.may_be_known
        /\ identities = prog.identities
        /\ rows = {order[k] : k \in DOMAIN order}
        /\ fixed_data = [global_range_constraints |-> prog.global_range_constraints]
        /\ initial_known = known
        /\ known_cells = known
        /\ derived_range_constraints = [c \in Cells |-> None]
        /\ code = <<>>
        /\ complete = {}
        /\ panicked = FALSE
        /\ driver = [pc |-> "while",
                     rows |-> order,
                     expected_complete |->
                        IF IsSome(expected_complete) THEN Get(expected_complete)
                        ELSE Len(prog.identities) * Len(order),
                     counter |-> 0, r |-> 1, i |-> 1]

\* while complete.len() != expected_complete { counter += 1; ...
driver_while ==
    /\ driver.pc = "while"
    /\ ~panicked
    /\ driver' =
        IF Cardinality(complete) = driver.expected_complete
        THEN [driver EXCEPT !.pc = "done"]
        ELSE [driver EXCEPT
                !.counter = @ + 1, !.r = 1, !.i = 1,
                !.pc = IF Len(driver.rows) = 0 \/ Len(identities) = 0
                       THEN "assert" ELSE "for"]
    /\ UNCHANGED <<identities, rows, fixed_data, initial_known, known_cells,
                   derived_range_constraints, code, complete, panicked>>

\* The body of the two for loops: one identity on one row.
driver_for ==
    /\ driver.pc = "for"
    /\ ~panicked
    /\ LET i == driver.i
           row == driver.rows[driver.r]
       IN /\ IF <<i, row>> \notin complete
             THEN process_identity(i, row)
             ELSE UNCHANGED <<identities, rows, fixed_data, initial_known, known_cells,
                              derived_range_constraints, code, complete, panicked>>
          /\ driver' =
                IF i < Len(identities) THEN [driver EXCEPT !.i = i + 1]
                ELSE IF driver.r < Len(driver.rows)
                THEN [driver EXCEPT !.i = 1, !.r = @ + 1]
                ELSE [driver EXCEPT !.pc = "assert"]

\* assert!(counter < 10000, ..) at the end of a pass.
driver_assert ==
    /\ driver.pc = "assert"
    /\ ~panicked
    /\ IF driver.counter < MaxRounds
       THEN driver' = [driver EXCEPT !.pc = "while"] /\ UNCHANGED panicked
       ELSE panicked' = TRUE /\ UNCHANGED driver
    /\ UNCHANGED <<identities, rows, fixed_data, initial_known, known_cells,
                   derived_range_constraints, code, complete>>

DriverNext == driver_while \/ driver_for \/ driver_assert

\* The loop is sequential code: it keeps running until it returns or aborts.
DriverSpec == DriverInit /\ [][DriverNext]_vars /\ WF_vars(DriverNext)

\* The engine under either caller.
AnyCallerSpec ==
    /\ Init \/ DriverInit
    /\ [][Next \/ DriverNext]_vars
    /\ WF_vars(DriverNext)

(***************************************************************************)
(* Vocabulary of the properties.                                           *)
(***************************************************************************)
\* Every call the driver can make in the current state, its ProcessResult
\* and the knowledge base it leaves behind.
Calls == {<<i, row>> : i \in 1..Len(identities), row \in rows}
ResultOf(call) == identity_result(KB, identities[call[1]], call[2])
AfterCall(call) == ingest_effects(KB, ResultOf(call).effects)
LeavesUnchanged(kb) ==
    /\ kb.code = code
    /\ kb.known_cells = known_cells
    /\ kb.derived_range_constraints = derived_range_constraints

AssignmentsTo(c, cd) == {i \in 1..Len(cd) : cd[i].t = "Assignment" /\ cd[i].cell = c}
\* The cells the Unknown arguments of a machine call supply.
SuppliedBy(e) ==
    {c \in Cells : \E i \in 1..Len(e.args) :
        ~e.args[i].known /\ c \in DOMAIN e.args[i].e.coeffs}
\* The cells an effect reads: the value of an Assignment, the Known
\* arguments of a MachineCall.
ReadBy(e) ==
    CASE e.t = "Assignment" -> SymCells(e.value)
      [] e.t = "MachineCall" ->
            UNION {SymCells(e.args[i].e) : i \in {j \in 1..Len(e.args) : e.args[j].known}}
      [] OTHER -> {}
\* The cells known before position i of the code.
KnownBefore(i) ==
    initial_known
    \cup {code[j].cell : j \in {k \in 1..(i - 1) : code[k].t = "Assignment"}}
    \cup UNION {SuppliedBy(code[j]) : j \in {k \in 1..(i - 1) : code[k].t = "MachineCall"}}

\* C1: no cell has more than one Assignment in code, whether the Assignment
\* was produced by solving or by the promotion in add_range_constraint.
C1_AtMostOneAssignment ==
    \A c \in Cells : Cardinality(AssignmentsTo(c, code)) <= 1

\* With nothing known at construction, X[0] can precede W[0] in the code of the
\* range program only if X[0] was promoted; W[0] was then solved for.
C1_Witness ==
    /\ identities = RangeProgram.identities
    /\ initial_known = {}
    /\ \E i, j \in 1..Len(code) :
        /\ i < j
        /\ code[i] = Assignment(Cell("X", 0), Concrete(0))
        /\ code[j].t = "Assignment" /\ code[j].cell = Cell("W", 0)

\* C2: every cell read by an Assignment or MachineCall of code is known at
\* that position: known at construction, assigned earlier, or supplied by an
\* earlier machine call.
C2_Executability ==
    \A i \in 1..Len(code) : ReadBy(code[i]) \subseteq KnownBefore(i)

\* An Assignment that reads the cell an earlier machine call supplied, and a
\* machine call with a Known argument that reads an assigned cell.
C2_Witness ==
    /\ \E i, j \in 1..Len(code) :
        /\ i < j
        /\ code[i].t = "MachineCall"
        /\ code[j].t = "Assignment"
        /\ SuppliedBy(code[i]) \cap SymCells(code[j].value) # {}
    /\ \E i, j \in 1..Len(code) :
        /\ i < j
        /\ code[i].t = "Assignment"
        /\ code[j].t = "MachineCall"
        /\ code[i].cell \in ReadBy(code[j])

\* C3: no step removes a cell from known_cells.
C3_KnownCellsGrow == [][known_cells \subseteq known_cells']_vars

C3_Witness ==
    /\ initial_known # {}
    /\ Cardinality(known_cells) >= Cardinality(initial_known) + 3

\* C4: an entry of derived_range_constraints is never removed, and the set of
\* values it allows after a step is a subset of the set it allowed before.
C4_RangeConstraintsTighten ==
    [][\A c \in Cells :
        IsSome(derived_range_constraints[c]) =>
            /\ IsSome(derived_range_constraints'[c])
            /\ Get(derived_range_constraints'[c]) \subseteq Get(derived_range_constraints[c])]_vars

\* A state in which a call strictly tightens an entry that already exists.
C4_Witness ==
    \E call \in Calls, c \in Cells :
        /\ IsSome(derived_range_constraints[c])
        /\ Get(AfterCall(call).derived_range_constraints[c])
              # Get(derived_range_constraints[c])
        /\ Get(AfterCall(call).derived_range_constraints[c]) # {}

\* The merges a call performs: for each effect that reaches
\* add_range_constraint, the knowledge base at that moment, the cell and the
\* new constraint.
MergesOf(call) ==
    LET effects == ResultOf(call).effects
        before(j) == ingest_effects(KB, SubSeq(effects, 1, j - 1))
    IN {[kb |-> before(j), cell |-> effects[j].cell, rc |-> effects[j].rc] :
            j \in {k \in 1..Len(effects) : effects[k].t = "RangeConstraint"}}
       \cup
       {[kb |-> insert_known(before(j), effects[j].cell),
         cell |-> effects[j].cell,
         rc |-> Get(SymRangeConstraint(effects[j].value))] :
            j \in {k \in 1..Len(effects) :
                    /\ effects[k].t = "Assignment"
                    /\ IsSome(SymRangeConstraint(effects[k].value))}}
MergedConstraint(m) ==
    LET existing == range_constraint(m.kb, m.cell)
    IN IF IsSome(existing) THEN Get(existing) \cap m.rc ELSE m.rc
HasOneConstantAssignment(cd, cell, v) ==
    /\ Cardinality(AssignmentsTo(cell, cd)) = 1
    /\ \A i \in AssignmentsTo(cell, cd) : cd[i].value = Concrete(v)

\* C5 as stated: whenever a merge leaves a single value v, code afterwards
\* holds exactly one Assignment for the cell, with the constant v, whatever
\* the status of the cell.  derived_range_constraints holds the result of the
\* last merge of each cell.
C5_PromotionAnyStatus ==
    \A c \in Cells :
        LET rc == derived_range_constraints[c]
        IN (IsSome(rc) /\ Cardinality(Get(rc)) = 1) =>
                HasOneConstantAssignment(code, c, Get(Get(rc)))

\* C5 amended: whenever a merge into a cell that is not yet known leaves a
\* single value v, code afterwards holds exactly one Assignment for the cell,
\* with the constant v.  A merge into a cell that is already known (the target
\* of the Assignment being ingested) synthesizes no Assignment: code holds
\* exactly one Assignment for the cell, the ingested one.
C5_PromotionOfUnknownCells ==
    \A call \in Calls : \A m \in MergesOf(call) :
        Cardinality(MergedConstraint(m)) = 1 =>
            IF m.cell \notin m.kb.known_cells
            THEN HasOneConstantAssignment(AfterCall(call).code, m.cell,
                                          Get(MergedConstraint(m)))
            ELSE /\ add_range_constraint(m.kb, m.cell, m.rc).code = m.kb.code
                 /\ Cardinality(AssignmentsTo(m.cell, AfterCall(call).code)) = 1

\* X[0] was promoted to the constant 0 by range constraints alone: no
\* identity has completed yet.
C5_Witness ==
    /\ identities = RangeProgram.identities
    /\ complete = {}
    /\ code = <<Assignment(Cell("X", 0), Concrete(0))>>
    /\ derived_range_constraints[Cell("X", 0)] = Some({0})

\* C6: calling process_identity again on a pair that returned true appends
\* nothing to code and leaves known_cells and derived_range_constraints as
\* they are, in the state the call left behind and in every later one.
C6_CompletionIsIdempotent ==
    \A call \in complete : LeavesUnchanged(AfterCall(call))

\* Completed pairs of both families exist, with their effects in code.
C6_Witness ==
    /\ \E call \in complete : identities[call[1]].kind = "Polynomial"
    /\ \E call \in complete : identities[call[1]].kind \in LookupFamily
    /\ \E i, j \in 1..Len(code) : code[i].t = "Assignment" /\ code[j].t = "MachineCall"

\* A polynomial identity that evaluates to a known non-zero constant.
IsConflict(call) ==
    LET id == identities[call[1]]
        r == IF id.kind = "Polynomial" THEN evaluate(KB, id.expression, call[2]) ELSE None
    IN /\ IsSome(r)
       /\ DOMAIN Get(r).coeffs = {}
       /\ IsSome(SymTryToNumber(Get(r).offset))
       /\ Get(r).offset.v # 0

\* C7: process_identity never aborts; on a polynomial identity that evaluates
\* to a non-zero constant it returns true, appends one Assertion and leaves
\* known_cells and derived_range_constraints unchanged.
C7_ConflictsDoNotPanic ==
    /\ ~panicked
    /\ \A call \in Calls :
        IsConflict(call) =>
            /\ ~ResultOf(call).error
            /\ ResultOf(call).complete
            /\ Len(ResultOf(call).effects) = 1
            /\ ResultOf(call).effects[1].t = "Assertion"
            /\ AfterCall(call).code = Append(code, ResultOf(call).effects[1])
            /\ AfterCall(call).known_cells = known_cells
            /\ AfterCall(call).derived_range_constraints = derived_range_constraints

\* The four conditions of the lookup rule, for a lookup-family identity.
LookupCalls == {call \in Calls : identities[call[1]].kind \in LookupFamily}
LhsOf(id, row) ==
    [i \in 1..Len(id.left.expressions) |-> evaluate(KB, id.left.expressions[i], row)]
CondRightIsFixed(id) ==
    \A i \in 1..Len(id.right.expressions) :
        \/ id.right.expressions[i].t = "Number"
        \/ id.right.expressions[i].t = "Reference" /\ id.right.expressions[i].fixed
CondSelectorIsOne(id, row) ==
    LET sel == evaluate(KB, id.left.selector, row)
    IN IsSome(sel) /\ DOMAIN Get(sel).coeffs = {} /\ Get(sel).offset = Concrete(1)
CondLeftEvaluates(id, row) ==
    \A i \in 1..Len(id.left.expressions) : IsSome(LhsOf(id, row)[i])
CondOneUnknown(id, row) ==
    /\ CondLeftEvaluates(id, row)
    /\ \E i \in 1..Len(id.left.expressions) :
        /\ Cardinality(DOMAIN Get(LhsOf(id, row)[i]).coeffs) = 1
        /\ \A j \in 1..Len(id.left.expressions) :
            j # i => DOMAIN Get(LhsOf(id, row)[j]).coeffs = {}
ExpectedMachineCall(id, row) ==
    MachineCall(id.id,
        [i \in 1..Len(id.left.expressions) |->
            LET a == Get(LhsOf(id, row)[i])
            IN IF DOMAIN a.coeffs = {} THEN Known(a.offset) ELSE Unknown(a)])

\* C8: for each of the four lookup kinds, process_identity returns true and
\* appends exactly one MachineCall (identity id, one argument per left-hand
\* expression, in order) iff the right side is fixed, the selector is the
\* constant one, every left-hand expression evaluates and exactly one of
\* them has an unknown, a single one; otherwise it returns false and changes
\* nothing.
C8_LookupRule ==
    \A call \in LookupCalls, kind \in LookupFamily :
        LET id == [identities[call[1]] EXCEPT !.kind = kind]
            row == call[2]
            r == identity_result(KB, id, row)
            kb == ingest_effects(KB, r.effects)
        IN IF /\ CondRightIsFixed(id)
              /\ CondSelectorIsOne(id, row)
              /\ CondLeftEvaluates(id, row)
              /\ CondOneUnknown(id, row)
           THEN /\ r.complete /\ ~r.error /\ ~kb.panic
                /\ r.effects = <<ExpectedMachineCall(id, row)>>
                /\ kb.code = Append(code, ExpectedMachineCall(id, row))
           ELSE /\ ~r.complete /\ ~r.error
                /\ LeavesUnchanged(kb)

\* A machine call of a phantom permutation is in code, while another lookup
\* identity of the program cannot be resolved in the same state.
C8_Witness ==
    /\ \E i \in 1..Len(code), j \in 1..Len(identities) :
        /\ code[i].t = "MachineCall"
        /\ identities[j].kind = "PhantomPermutation"
        /\ identities[j].id = code[i].id
        /\ Len(code[i].args) = 2
    /\ \E call \in LookupCalls :
        /\ CondRightIsFixed(identities[call[1]])
        /\ CondSelectorIsOne(identities[call[1]], call[2])
        /\ ~CondOneUnknown(identities[call[1]], call[2])

\* C9: the call that emits a MachineCall puts the cell of its Unknown
\* argument into known_cells; from then on the cell evaluates as known, and
\* no Assignment for it is in code.
C9_LookupSuppliesCell ==
    /\ \A call \in Calls :
        \A j \in 1..Len(ResultOf(call).effects) :
            ResultOf(call).effects[j].t = "MachineCall" =>
                /\ SuppliedBy(ResultOf(call).effects[j]) # {}
                /\ SuppliedBy(ResultOf(call).effects[j]) \subseteq AfterCall(call).known_cells
    /\ \A i \in 1..Len(code) :
        code[i].t = "MachineCall" =>
            \A c \in SuppliedBy(code[i]) :
                /\ c \in known_cells
                /\ AssignmentsTo(c, code) = {}
                /\ DOMAIN Get(evaluate(KB, WRef(c.col), c.row)).coeffs = {}

\* The lookup on row 0 supplied Y[0], and Z' = Y was then solved with it:
\* Z[1] = Y[0].
C9_Witness ==
    \E i, j \in 1..Len(code) :
        /\ i < j
        /\ code[i].t = "MachineCall"
        /\ SuppliedBy(code[i]) = {Cell("Y", 0)}
        /\ code[j].t = "Assignment"
        /\ code[j].cell = Cell("Z", 1)
        /\ code[j].value = Symbol(Cell("Y", 0), None)

\* The expression contains a product both of whose factors evaluate to
\* something with an unknown.
HasUnknowns(o) == IsSome(o) /\ DOMAIN Get(o).coeffs # {}
RECURSIVE HasUnknownProduct(_, _)
HasUnknownProduct(e, row) ==
    CASE e.t = "BinaryOperation" ->
            \/ /\ e.op = "Mul"
               /\ HasUnknowns(evaluate(KB, e.left, row))
               /\ HasUnknowns(evaluate(KB, e.right, row))
            \/ HasUnknownProduct(e.left, row)
            \/ HasUnknownProduct(e.right, row)
      [] e.t = "UnaryOperation" -> HasUnknownProduct(e.expr, row)
      [] OTHER -> FALSE

\* C10: while both factors of a product in a polynomial identity contain an
\* unknown, every call on the identity returns false and changes nothing.
C10_NonlinearStaysUnresolved ==
    \A call \in Calls :
        (/\ identities[call[1]].kind = "Polynomial"
         /\ HasUnknownProduct(identities[call[1]].expression, call[2])) =>
            /\ ResultOf(call) = ProcessResultEmpty
            /\ LeavesUnchanged(AfterCall(call))

\* Z * Y = X + 10 was blocked at first (nothing was known) and completed
\* once Y had become the constant 2: Z[0] = 11 / 2.
C10_Witness ==
    /\ identities = SimpleProgram.identities
    /\ initial_known = {}
    /\ <<3, 0>> \in complete
    /\ \E i \in 1..Len(code) : code[i] = Assignment(Cell("Z", 0), Concrete(FDiv(11, 2)))

(***************************************************************************)
(* Constant propagation.                                                   *)
(***************************************************************************)
\* The positions of code that assign a constant.
ConstantAssignments ==
    {i \in 1..Len(code) : code[i].t = "Assignment" /\ code[i].value.t = "num"}
\* What a same-row reference to the cell evaluates to now.
EvaluatedCell(cell) == evaluate(KB, WRef(cell.col), cell.row)
\* The code test simple_polynomial_solving expects.
SimpleTestCode ==
    <<Assignment(Cell("X", 0), Concrete(1)),
      Assignment(Cell("Y", 0), Concrete(2)),
      Assignment(Cell("Z", 0), Concrete(FDiv(11, 2)))>>
\* The driver has returned from its run of the simple test.
SimpleTestDone ==
    /\ identities = SimpleTestProgram.identities
    /\ initial_known = {}
    /\ driver.pc = "done"
    /\ driver.rows = <<0>>
    /\ driver.expected_complete = 3
SimpleTestResult ==
    SimpleTestDone =>
        /\ code = SimpleTestCode
        /\ complete = {<<1, 0>>, <<2, 0>>, <<3, 0>>}
        /\ driver.counter = 1

\* C11 as stated: a cell that was assigned a constant v evaluates to the
\* constant v ever after, and the simple test yields X[0] = 1, Y[0] = 2,
\* Z[0] = 11 / 2 in one pass.
C11_ConstantsPropagate ==
    /\ \A i \in ConstantAssignments :
            EvaluatedCell(code[i].cell) = Some(AffFromNumber(code[i].value.v))
    /\ SimpleTestResult

\* C11 amended: a cell that was assigned a constant v evaluates to the
\* constant v as long as its range constraint allows v; if global or derived
\* range constraints exclude v, the conjunction is empty and the cell
\* evaluates to a known symbol.  The simple test yields X[0] = 1, Y[0] = 2,
\* Z[0] = 11 / 2 in one pass.
C11_ConstantsPropagateWithinRange ==
    /\ \A i \in ConstantAssignments :
            LET cell == code[i].cell
                v == code[i].value.v
                rc == range_constraint(KB, cell)
            IN /\ IsSome(rc)
               /\ Get(rc) \subseteq {v}
               /\ EvaluatedCell(cell) =
                    IF Get(rc) = {v} THEN Some(AffFromNumber(v))
                    ELSE Some(AffFromKnownSymbol(cell, rc))
    /\ SimpleTestResult

\* The driver has finished the simple test with the expected code.
C11_Witness ==
    /\ SimpleTestDone
    /\ code = SimpleTestCode

(***************************************************************************)
(* Derivation order across rows.                                           *)
(***************************************************************************)
\* The run of test fib: rows 0 and 1, X[0] and Y[0] known, every pair expected.
FibRun ==
    /\ identities = FibProgram.identities
    /\ initial_known = {Cell("X", 0), Cell("Y", 0)}
    /\ driver.pc # "none"
    /\ driver.rows = <<0, 1>>
    /\ driver.expected_complete = 4
\* X[1] = Y[0]; Y[1] = (X[0] + Y[0]); X[2] = Y[1]; Y[2] = (X[1] + Y[1]);
FibCode ==
    <<Assignment(Cell("X", 1), Symbol(Cell("Y", 0), None)),
      Assignment(Cell("Y", 1),
          SymAdd(Symbol(Cell("X", 0), None), Symbol(Cell("Y", 0), None))),
      Assignment(Cell("X", 2), Symbol(Cell("Y", 1), None)),
      Assignment(Cell("Y", 2),
          SymAdd(Symbol(Cell("X", 1), None), Symbol(Cell("Y", 1), None)))>>
FibDone == FibRun /\ driver.pc = "done"
\* How far the loop of the driver has come: passes, then the position in
\* the pass (the loop body, the assert, the test of the while condition).
DriverProgress(d) ==
    LET body == Len(d.rows) * Len(identities)
    IN d.counter * (body + 3)
       + CASE d.pc = "for" -> (d.r - 1) * Len(identities) + d.i
           [] d.pc = "assert" -> body + 1
           [] d.pc = "while" -> body + 2
           [] d.pc = "done" -> body + 3

\* C12: the driver loop on the fib identities, rows 0 and 1, X[0] and Y[0]
\* known, returns: it never aborts, it can always take its next step until
\* it has returned, every step advances it and it needs one pass.  Code
\* grows along X[1] = Y[0]; Y[1] = X[0] + Y[0]; X[2] = Y[1];
\* Y[2] = X[1] + Y[1] and is exactly that when the loop returns, with all
\* four pairs complete; a next-row reference at row r is the cell of the
\* same-row reference at row r + 1.
C12_FibDerivationOrder ==
    /\ [](FibRun =>
            /\ ~panicked
            /\ driver.pc = "done" \/ ENABLED DriverNext
            /\ driver.counter <= 1
            /\ \E k \in 0..Len(FibCode) : code = SubSeq(FibCode, 1, k)
            /\ driver.pc = "done" =>
                /\ code = FibCode
                /\ complete = {<<1, 0>>, <<2, 0>>, <<1, 1>>, <<2, 1>>}
            /\ \A c \in ColumnNames, r \in Rows :
                CellFromReference(WNext(c), r) = CellFromReference(WRef(c), r + 1))
    /\ [][FibRun => DriverProgress(driver') > DriverProgress(driver)]_vars

\* The loop has returned with the four assignments.
C12_Witness == FibDone /\ code = FibCode

(***************************************************************************)
(* RangeConstraint effects.                                                *)
(***************************************************************************)
\* The RangeConstraint effects a call ingests, each with the knowledge base
\* right before and right after it.
RangeConstraintSteps(call) ==
    LET effects == ResultOf(call).effects
    IN {[e |-> effects[j],
         kb |-> ingest_effects(KB, SubSeq(effects, 1, j - 1)),
         after |-> ingest_effects(KB, SubSeq(effects, 1, j))] :
            j \in {k \in 1..Len(effects) : effects[k].t = "RangeConstraint"}}

\* C13: code holds Assignments, Assertions and MachineCalls only.  Ingesting
\* a RangeConstraint effect changes derived_range_constraints at its cell
\* and nothing else, except that it may promote the cell: then the cell
\* becomes known and the Assignment of the constant is appended.
C13_NoRangeConstraintInCode ==
    /\ \A i \in 1..Len(code) : code[i].t \in {"Assignment", "Assertion", "MachineCall"}
    /\ \A call \in Calls : \A s \in RangeConstraintSteps(call) :
        /\ \A c \in Cells \ {s.e.cell} :
            s.after.derived_range_constraints[c] = s.kb.derived_range_constraints[c]
        /\ \/ /\ s.after.code = s.kb.code
              /\ s.after.known_cells = s.kb.known_cells
           \/ /\ s.e.cell \notin s.kb.known_cells
              /\ s.after.known_cells = s.kb.known_cells \cup {s.e.cell}
              /\ \E v \in Field :
                    /\ s.after.derived_range_constraints[s.e.cell] = Some({v})
                    /\ s.after.code = Append(s.kb.code, Assignment(s.e.cell, Concrete(v)))

\* A RangeConstraint effect was ingested without promotion (the constraint of
\* an unknown cell still allows several values) next to effects in code.
C13_Witness ==
    /\ code # <<>>
    /\ \E c \in Cells \ known_cells :
        /\ IsSome(derived_range_constraints[c])
        /\ Cardinality(Get(derived_range_constraints[c])) > 1

(***************************************************************************)
(* Bus interactions and connect identities.                                *)
(***************************************************************************)
\* C14: a PhantomBusInteraction or Connect identity never completes, on any
\* row and in any knowledge base: the call returns false and leaves code,
\* known_cells and derived_range_constraints as they are.
C14_BusAndConnectUnresolved ==
    \A call \in Calls :
        identities[call[1]].kind \in {"PhantomBusInteraction", "Connect"} =>
            /\ ResultOf(call) = ProcessResultEmpty
            /\ LeavesUnchanged(AfterCall(call))
            /\ call \notin complete

\* The driver has passed twice over a bus interaction and a connect identity
\* while lookups and polynomial identities were being resolved.
C14_Witness ==
    /\ driver.pc = "for"
    /\ driver.counter = 3
    /\ driver.rows # <<>>
    /\ \E i, j \in 1..Len(identities) :
        /\ identities[i].kind = "PhantomBusInteraction"
        /\ identities[j].kind = "Connect"
    /\ \E i, j \in 1..Len(code) : code[i].t = "MachineCall" /\ code[j].t = "Assignment"

(***************************************************************************)
(* Identities with more than one unknown.                                  *)
(***************************************************************************)
\* The calls on polynomial identities that evaluate to an expression with
\* more than one unknown term, and that expression.
Evaluated(call) == evaluate(KB, identities[call[1]].expression, call[2])
SeveralUnknowns ==
    {call \in Calls :
        /\ identities[call[1]].kind = "Polynomial"
        /\ IsSome(Evaluated(call))
        /\ Cardinality(DOMAIN Get(Evaluated(call)).coeffs) > 1}
\* The unknown terms of a have numeric coefficients and range constraints in
\* the knowledge base, and occupy disjoint bits below the modulus.
BitsOf(a, c) == RcMask(RcMultiple(Get(range_constraint(KB, c)), a.coeffs[c].v))
RECURSIVE AllBitsOf(_, _)
AllBitsOf(a, S) ==
    IF S = {} THEN 0
    ELSE LET c == CHOOSE x \in S : TRUE IN BitOr(BitsOf(a, c), AllBitsOf(a, S \ {c}))
OccupiesDisjointBits(a) ==
    LET U == DOMAIN a.coeffs
    IN /\ \A c \in U : a.coeffs[c].t = "num" /\ IsSome(range_constraint(KB, c))
       /\ \A c, d \in U : c # d => BitAnd(BitsOf(a, c), BitsOf(a, d)) = 0
       /\ AllBitsOf(a, U) < P

\* C15 as stated: a call on an identity with more than one unknown term
\* returns false and changes nothing.
C15_SeveralUnknownsDefer ==
    [][\A call \in SeveralUnknowns :
            process_identity(call[1], call[2]) =>
                /\ UNCHANGED <<code, known_cells, derived_range_constraints>>
                /\ call \notin complete']_vars

\* C15 amended: an identity with more than one unknown term is deferred
\* (false, no effects, nothing changed) when none of its unknown cells has a
\* range constraint.  With range constraints it is solved at once if the
\* terms, or their negations, occupy disjoint bits: the call returns true and
\* appends one Assignment per unknown and one Assertion.  Otherwise it
\* returns false, and the only effects are RangeConstraint effects: code and
\* known_cells change by promoted constants only.  It never aborts.
C15_SeveralUnknownsDeferWithoutRanges ==
    \A call \in SeveralUnknowns :
        LET a == Get(Evaluated(call))
            U == DOMAIN a.coeffs
            result == ResultOf(call)
            after == AfterCall(call)
            new == SubSeq(after.code, Len(code) + 1, Len(after.code))
        IN /\ ~result.error
           /\ (\A c \in U : ~IsSome(range_constraint(KB, c))) =>
                result = ProcessResultEmpty /\ LeavesUnchanged(after)
           /\ result.complete <=>
                OccupiesDisjointBits(a) \/ OccupiesDisjointBits(AffNeg(a))
           /\ result.complete =>
                /\ Len(result.effects) = Cardinality(U) + 1
                /\ \A c \in U : \E j \in 1..Cardinality(U) :
                        result.effects[j].t = "Assignment" /\ result.effects[j].cell = c
                /\ result.effects[Cardinality(U) + 1].t = "Assertion"
                /\ after.known_cells = known_cells \cup U
           /\ ~result.complete =>
                /\ \A j \in 1..Len(result.effects) : result.effects[j].t = "RangeConstraint"
                /\ \A j \in 1..Len(new) :
                        /\ new[j].t = "Assignment"
                        /\ new[j].value.t = "num"
                        /\ new[j].cell \in U \ known_cells
                /\ after.known_cells = known_cells \cup {new[j].cell : j \in 1..Len(new)}

\* In the range program Z - (X + 4 * W) = 0 with Z known was solved for X and
\* W at once: the Assertion of the bit decomposition is in code.
C15_Witness ==
    /\ identities = RangeProgram.identities
    /\ <<1, 0>> \in complete
    /\ \E i, j, k \in 1..Len(code) :
        /\ i < j /\ j < k
        /\ code[i].t = "Assignment" /\ code[i].cell = Cell("X", 0)
        /\ code[j].t = "Assignment" /\ code[j].cell = Cell("W", 0)
        /\ code[k].t = "Assertion"

(***************************************************************************)
(* Evaluation failure.                                                     *)
(***************************************************************************)
IsKnownNumber(o) ==
    /\ IsSome(o)
    /\ IsSome(AffTryToKnown(Get(o)))
    /\ IsSome(SymTryToNumber(Get(AffTryToKnown(Get(o)))))
\* Somewhere in the tree of e there is a fixed column the provider has no
\* value of, a public input, a challenge, a product of two operands with
\* unknowns, or a power whose operands are not both known numbers.
RECURSIVE FailsSomewhere(_, _)
FailsSomewhere(e, row) ==
    CASE e.t = "Reference" -> e.fixed /\ ~IsSome(FixedEvaluate(e, row))
      [] e.t \in {"PublicReference", "Challenge"} -> TRUE
      [] e.t = "Number" -> FALSE
      [] e.t = "UnaryOperation" -> FailsSomewhere(e.expr, row)
      [] e.t = "BinaryOperation" ->
            \/ FailsSomewhere(e.left, row)
            \/ FailsSomewhere(e.right, row)
            \/ /\ e.op = "Mul"
               /\ HasUnknowns(evaluate(KB, e.left, row))
               /\ HasUnknowns(evaluate(KB, e.right, row))
            \/ /\ e.op = "Pow"
               /\ ~(/\ IsKnownNumber(evaluate(KB, e.left, row))
                    /\ IsKnownNumber(evaluate(KB, e.right, row)))

\* C16: the evaluation of a polynomial identity fails exactly if it fails
\* somewhere in the tree, and then process_identity returns false and leaves
\* code, known_cells and derived_range_constraints as they are.
C16_EvaluationFailureIsSilent ==
    \A call \in Calls :
        LET id == identities[call[1]] IN
        id.kind = "Polynomial" =>
            /\ FailsSomewhere(id.expression, call[2]) <=> ~IsSome(Evaluated(call))
            /\ ~IsSome(Evaluated(call)) =>
                /\ ResultOf(call) = ProcessResultEmpty
                /\ ~AfterCall(call).panic
                /\ LeavesUnchanged(AfterCall(call))
                /\ call \notin complete

\* The driver is in its second pass over the evaluation program, with effects
\* in code: the identities with a public input, a challenge, an unavailable
\* fixed column and a power of a known symbol were tried and are not complete.
C16_Witness ==
    /\ identities = EvalProgram.identities
    /\ driver.pc = "for"
    /\ driver.counter = 2
    /\ code # <<>>
    /\ \A i \in {1, 2, 3, 5} :
        /\ ~IsSome(evaluate(KB, identities[i].expression, 0))
        /\ <<i, 0>> \notin complete

(***************************************************************************)
(* Evaluation of witness references.                                       *)
(***************************************************************************)
\* The global constraint of the column and the derived constraint of the
\* cell, conjoined if there are both.
CombinedConstraint(cell) ==
    LET g == fixed_data.global_range_constraints[cell.col]
        d == derived_range_constraints[cell]
    IN IF IsSome(g) /\ IsSome(d) THEN Some(Get(g) \cap Get(d))
       ELSE IF IsSome(g) THEN g ELSE d
ExpectedReference(cell) ==
    LET rc == CombinedConstraint(cell)
    IN IF IsSome(rc) /\ Cardinality(Get(rc)) = 1
       THEN [coeffs |-> <<>>, offset |-> Concrete(CHOOSE v \in Get(rc) : TRUE), rcs |-> <<>>]
       ELSE IF cell \in known_cells
       THEN [coeffs |-> <<>>, offset |-> Symbol(cell, rc), rcs |-> <<>>]
       ELSE [coeffs |-> (cell :> Concrete(1)), offset |-> Concrete(0), rcs |-> (cell :> rc)]

\* C17: a reference to a witness column at row r addresses the cell at row
\* r + 1 if it is a next reference and at row r otherwise, and evaluates to
\* the single value of its combined range constraint if there is one, else
\* to a known symbol if the cell is known, else to an unknown carrying the
\* combined range constraint; code plays no part in the result.
C17_ReferencePriority ==
    \A col \in ColumnNames, row \in rows, next \in BOOLEAN :
        LET r == IF next THEN WNext(col) ELSE WRef(col)
            cell == Cell(col, IF next THEN row + 1 ELSE row)
        IN /\ evaluate(KB, r, row) = Some(ExpectedReference(cell))
           /\ evaluate([KB EXCEPT !.code = <<>>], r, row) = evaluate(KB, r, row)

\* In the evaluation program all cases are there at once: W[0] is a constant
\* by its global constraint alone, X[0] is known and a constant, Z[0] is a
\* known symbol and Y[0] is unknown.
C17_Witness ==
    /\ identities = EvalProgram.identities
    /\ initial_known = {Cell("Z", 0)}
    /\ Cell("W", 0) \notin known_cells
    /\ evaluate(KB, WRef("W"), 0) = Some(AffFromNumber(3))
    /\ Cell("X", 0) \in known_cells
    /\ evaluate(KB, WRef("X"), 0) = Some(AffFromNumber(8))
    /\ evaluate(KB, WRef("Z"), 0) = Some(AffFromKnownSymbol(Cell("Z", 0), None))
    /\ evaluate(KB, WRef("Y"), 0) = Some(AffFromUnknownVariable(Cell("Y", 0), None))

(***************************************************************************)
(* Arguments of machine calls.                                             *)
(***************************************************************************)
\* Exactly one argument is tagged Unknown, and its expression has exactly
\* one unknown variable.
WellFormedMachineCall(e) ==
    LET unk == {i \in 1..Len(e.args) : ~e.args[i].known}
    IN /\ Cardinality(unk) = 1
       /\ \A i \in unk :
            /\ Cardinality(DOMAIN e.args[i].e.coeffs) = 1
            /\ IsSome(AffSingleUnknownVariable(e.args[i].e))

\* C18: every MachineCall in code and every MachineCall a call hands to
\* ingest_effects is well formed, and the unwrap of single_unknown_variable
\* in ingest_effects does not fail for any call.
C18_MachineCallsWellFormed ==
    /\ \A i \in 1..Len(code) :
            code[i].t = "MachineCall" => WellFormedMachineCall(code[i])
    /\ \A call \in Calls :
        /\ \A j \in 1..Len(ResultOf(call).effects) :
                ResultOf(call).effects[j].t = "MachineCall" =>
                    WellFormedMachineCall(ResultOf(call).effects[j])
        /\ ~AfterCall(call).panic

\* A lookup with a compound unknown argument, Y + 2 * Z with Z known, was
\* resolved next to one that stays open because two cells are unknown.
C18_Witness ==
    /\ \E i \in 1..Len(code) :
        /\ code[i].t = "MachineCall"
        /\ \E j \in 1..Len(code[i].args) :
            /\ ~code[i].args[j].known
            /\ code[i].args[j].e.offset # Concrete(0)
    /\ \E call \in LookupCalls :
        LET id == identities[call[1]]
        IN /\ CondRightIsFixed(id) /\ CondSelectorIsOne(id, call[2])
           /\ CondLeftEvaluates(id, call[2])
           /\ \E j \in 1..Len(LhsOf(id, call[2])) :
                Cardinality(DOMAIN Get(LhsOf(id, call[2])[j]).coeffs) > 1

(***************************************************************************)
(* Definitions of the known cells.                                         *)
(***************************************************************************)
\* The cells the effects cd[from..] define: targets of Assignments and
\* cells supplied by MachineCalls.
DefinedFrom(cd, from) ==
    {cd[j].cell : j \in {k \in from..Len(cd) : cd[k].t = "Assignment"}}
    \cup UNION {SuppliedBy(cd[j]) : j \in {k \in from..Len(cd) : cd[k].t = "MachineCall"}}

\* C19: every known cell was initially known or is defined by an Assignment
\* or by the Unknown argument of a MachineCall in code, and every call that
\* adds cells to known_cells extends code by definitions of these cells.
C19_KnownCellsAreDefined ==
    /\ known_cells \subseteq initial_known \cup DefinedFrom(code, 1)
    /\ \A call \in Calls :
        LET after == AfterCall(call)
            new == after.known_cells \ known_cells
        IN new # {} =>
            /\ Len(after.code) > Len(code)
            /\ SubSeq(after.code, 1, Len(code)) = code
            /\ new \subseteq DefinedFrom(after.code, Len(code) + 1)

\* Cells of all three origins are known, and a further call is about to
\* add another one.
C19_Witness ==
    /\ initial_known # {}
    /\ \E i, j \in 1..Len(code) :
        /\ code[i].t = "Assignment" /\ code[i].cell \in known_cells \ initial_known
        /\ code[j].t = "MachineCall"
        /\ SuppliedBy(code[j]) # {}
        /\ SuppliedBy(code[j]) \subseteq known_cells \ initial_known
    /\ \E call \in Calls : AfterCall(call).known_cells # known_cells

(***************************************************************************)
(* One definition per cell.                                                *)
(***************************************************************************)
MachineCallsIn(cd) == {j \in 1..Len(cd) : cd[j].t = "MachineCall"}
UnknownArguments(e) == {i \in 1..Len(e.args) : ~e.args[i].known}

\* C20: no Assignment targets an initially known cell or a cell supplied by
\* a MachineCall, no MachineCall supplies an initially known or an assigned
\* cell, and no cell is supplied by two Unknown arguments, of one MachineCall
\* or of two.
C20_SingleDefinition ==
    /\ \A i \in 1..Len(code) : code[i].t = "Assignment" =>
        /\ code[i].cell \notin initial_known
        /\ \A j \in MachineCallsIn(code) : code[i].cell \notin SuppliedBy(code[j])
    /\ \A j \in MachineCallsIn(code) :
        /\ SuppliedBy(code[j]) \cap initial_known = {}
        /\ \A c \in SuppliedBy(code[j]) : AssignmentsTo(c, code) = {}
        /\ \A k \in MachineCallsIn(code) \ {j} :
                SuppliedBy(code[j]) \cap SuppliedBy(code[k]) = {}
        /\ \A a, b \in UnknownArguments(code[j]) :
                a # b => DOMAIN code[j].args[a].e.coeffs
                            \cap DOMAIN code[j].args[b].e.coeffs = {}

\* Cells of all three origins exist, and the polynomial identity and the
\* lookup that defined two of them are asked again and yield nothing.
C20_Witness ==
    /\ initial_known # {}
    /\ \E i \in 1..Len(code), call \in complete :
        /\ code[i].t = "Assignment"
        /\ identities[call[1]].kind = "Polynomial"
        /\ ResultOf(call).effects = <<>>
    /\ \E j \in MachineCallsIn(code), call \in complete \cap LookupCalls :
        /\ code[j].id = identities[call[1]].id
        /\ ResultOf(call).effects = <<>>

(***************************************************************************)
(* Cells used as constants.                                                *)
(***************************************************************************)
\* The witness cells an expression refers to at a row.
RECURSIVE ReferencedCells(_, _)
ReferencedCells(e, row) ==
    CASE e.t = "Reference" -> IF e.fixed THEN {} ELSE {CellFromReference(e, row)}
      [] e.t = "UnaryOperation" -> ReferencedCells(e.expr, row)
      [] e.t = "BinaryOperation" ->
            ReferencedCells(e.left, row) \cup ReferencedCells(e.right, row)
      [] OTHER -> {}

\* The cells of a polynomial identity at a row that evaluate replaces by
\* the single value of their combined range constraint.
ConstantCells(call) ==
    LET id == identities[call[1]]
    IN IF id.kind # "Polynomial" THEN {}
       ELSE {c \in ReferencedCells(id.expression, call[2]) :
                /\ IsSome(range_constraint(KB, c))
                /\ IsSome(RcTryToSingleValue(Get(range_constraint(KB, c))))}

\* C21: every cell that a completed polynomial identity uses as a constant
\* is a known cell, and it was initially known or has an Assignment in code.
C21_ConstantCellsAreKnown ==
    \A call \in complete : \A c \in ConstantCells(call) :
        /\ c \in known_cells
        /\ c \in initial_known \/ AssignmentsTo(c, code) # {}

=============================================================================
